---- MODULE Spec2Model ----
\* A model of src/aiChatApp/src/App.tsx: the chat component's React state
\* (messages, input, file, isLoading), its event handlers and the asynchronous
\* continuations of handleSubmit (file read, collaborator call, stream loop).
\*
\* JavaScript strings are modelled as sequences of one-character strings, so
\* that trim(), the sanitizing regular expressions and string concatenation
\* are computed character by character.  "Binary strings" (the argument of
\* btoa, the result of atob) and byte arrays are sequences of integers.
EXTENDS Integers, Sequences, FiniteSets, TLC

\* ---------------------------------------------------------------- bounds
\* The number of handleSubmit invocations that get past the empty-content
\* check in one behaviour.
MaxSubs == 2
\* The number of chunks one response stream may yield.
MaxChunks == 2
\* The file names given to sanitizeFileName are built from at most MaxTokens
\* pieces; the byte sequences given to arrayBufferToBase64 have at most
\* MaxBytes bytes.
MaxTokens == 3
MaxBytes == 4
\* The number of draws of generateId in one behaviour that repeat an id
\* already in the Conversation.
MaxClashes == 1

\* ------------------------------------------------------- string helpers
\* Mutant of Min: the cap is not applied.
Min_NoCap(a, b) == a

Min(a, b) == IF a < b THEN a ELSE b

\* The code units JavaScript's \s and String.prototype.trim treat as white
\* space: space, tab, line feed, carriage return, form feed, vertical tab,
\* U+00A0, U+1680, U+2000 to U+200A, U+2028, U+2029, U+202F, U+205F, U+3000
\* and U+FEFF.  A code unit that has no escape in a TLA+ string is written
\* as the string that names it.
WhiteSpace ==
    {" ", "\t", "\n", "\r", "\f", "U+000B", "U+00A0", "U+1680",
     "U+2000", "U+2001", "U+2002", "U+2003", "U+2004", "U+2005", "U+2006",
     "U+2007", "U+2008", "U+2009", "U+200A", "U+2028", "U+2029", "U+202F",
     "U+205F", "U+3000", "U+FEFF"}

UpperCase == {"A","B","C","D","E","F","G","H","I","J","K","L","M",
              "N","O","P","Q","R","S","T","U","V","W","X","Y","Z"}
LowerCase == {"a","b","c","d","e","f","g","h","i","j","k","l","m",
              "n","o","p","q","r","s","t","u","v","w","x","y","z"}
Digit == {"0","1","2","3","4","5","6","7","8","9"}

\* String.prototype.trim: drop leading and trailing white space.
RECURSIVE TrimLeft(_)
TrimLeft(s) ==
    IF s # <<>> /\ Head(s) \in WhiteSpace THEN TrimLeft(Tail(s)) ELSE s

RECURSIVE TrimRight(_)
TrimRight(s) ==
    IF s # <<>> /\ s[Len(s)] \in WhiteSpace
    THEN TrimRight(SubSeq(s, 1, Len(s) - 1))
    ELSE s

\* Mutant of Trim: white space is kept.
Trim_KeepsWhiteSpace(s) == s

Trim(s) == TrimRight(TrimLeft(s))

\* ------------------------------------------------------ sanitizeFileName
\* Mutant of StripPdfExtension: the extension is kept.
StripPdfExtension_Keeps(s) == s

\* fileName.replace(/\.pdf$/i, ''): one trailing ".pdf", any case, is dropped.
StripPdfExtension(s) ==
    LET n == Len(s) IN
    IF /\ n >= 4
       /\ s[n - 3] = "."
       /\ s[n - 2] \in {"p", "P"}
       /\ s[n - 1] \in {"d", "D"}
       /\ s[n] \in {"f", "F"}
    THEN SubSeq(s, 1, n - 4)
    ELSE s

\* A character of a string marked as staying in a replacement's result.
IsKept(m) == m.kept

\* Mutant of KeptChars: the character class also keeps the dot.
KeptChars_WithDot == UpperCase \cup LowerCase \cup Digit \cup WhiteSpace
                         \cup {"-", "(", ")", "[", "]", "."}

\* The characters /[^A-Za-z0-9\s\-\(\)\[\]]/ does not match.
KeptChars == UpperCase \cup LowerCase \cup Digit \cup WhiteSpace
                 \cup {"-", "(", ")", "[", "]"}

\* .replace(/[^A-Za-z0-9\s\-\(\)\[\]]/g, '-')
ReplaceInvalid(s) ==
    [i \in 1..Len(s) |-> IF s[i] \in KeptChars THEN s[i] ELSE "-"]

\* .replace(/\s+/g, ' '): every maximal run of white space becomes one space.
\* The first character of a run is replaced by the space, the others go.
CollapseWhiteSpace(s) ==
    LET marked == [i \in 1..Len(s) |->
                     IF s[i] \notin WhiteSpace
                     THEN [char |-> s[i], kept |-> TRUE]
                     ELSE [char |-> " ",
                           kept |-> (i = 1 \/ s[i - 1] \notin WhiteSpace)]]
        left == SelectSeq(marked, IsKept)
    IN  [i \in 1..Len(left) |-> left[i].char]

\* .replace(/\s/g, '-')
WhiteSpaceToHyphen(s) ==
    [i \in 1..Len(s) |-> IF s[i] \in WhiteSpace THEN "-" ELSE s[i]]

\* Mutant of CollapseHyphens: runs of hyphens are kept.
CollapseHyphens_Keeps(s) == s

\* .replace(/-+/g, '-'): every maximal run of hyphens becomes one hyphen.
\* The last hyphen of a run stays, the others go.
CollapseHyphens(s) ==
    LET marked == [i \in 1..Len(s) |->
                     [char |-> s[i],
                      kept |-> ~(s[i] = "-" /\ i < Len(s) /\ s[i + 1] = "-")]]
        left == SelectSeq(marked, IsKept)
    IN  [i \in 1..Len(left) |-> left[i].char]

\* The fallback name and the length cap of sanitizeFileName.
DocumentName == <<"d","o","c","u","m","e","n","t">>
MaxNameLength == 256

sanitizeFileName(fileName) ==
    LET nameWithoutExtension == StripPdfExtension(fileName)
        chained == Trim(CollapseHyphens(WhiteSpaceToHyphen(
                       CollapseWhiteSpace(ReplaceInvalid(nameWithoutExtension)))))
        sanitized == IF chained = <<>> THEN DocumentName ELSE chained
    IN  SubSeq(sanitized, 1, Min(Len(sanitized), MaxNameLength))

\* ---------------------------------------------------------------- base64
\* The alphabet of btoa/atob; index i (0-based) is B64Alphabet[i + 1].
B64Alphabet ==
    <<"A","B","C","D","E","F","G","H","I","J","K","L","M","N","O","P",
      "Q","R","S","T","U","V","W","X","Y","Z","a","b","c","d","e","f",
      "g","h","i","j","k","l","m","n","o","p","q","r","s","t","u","v",
      "w","x","y","z","0","1","2","3","4","5","6","7","8","9","+","/">>

B64Char(v) == B64Alphabet[v + 1]
B64Value(c) == CHOOSE v \in 0..63 : B64Alphabet[v + 1] = c

\* btoa: three code units (each 0..255) become four characters; a final group
\* of one or two code units is padded with "=".
RECURSIVE btoa(_)
btoa(binary) ==
    IF binary = <<>> THEN <<>>
    ELSE IF Len(binary) = 1
    THEN <<B64Char(binary[1] \div 4), B64Char((binary[1] % 4) * 16), "=", "=">>
    ELSE IF Len(binary) = 2
    THEN <<B64Char(binary[1] \div 4),
           B64Char((binary[1] % 4) * 16 + binary[2] \div 16),
           B64Char((binary[2] % 16) * 4), "=">>
    ELSE <<B64Char(binary[1] \div 4),
           B64Char((binary[1] % 4) * 16 + binary[2] \div 16),
           B64Char((binary[2] % 16) * 4 + binary[3] \div 64),
           B64Char(binary[3] % 64)>> \o btoa(SubSeq(binary, 4, Len(binary)))

\* atob: four characters become three code units; "=" padding ends the data.
RECURSIVE atob(_)
atob(encoded) ==
    IF Len(encoded) < 4 THEN <<>>
    ELSE LET v1 == B64Value(encoded[1])
             v2 == B64Value(encoded[2])
         IN  IF encoded[3] = "="
             THEN <<v1 * 4 + v2 \div 16>>
             ELSE LET v3 == B64Value(encoded[3]) IN
                  IF encoded[4] = "="
                  THEN <<v1 * 4 + v2 \div 16, (v2 % 16) * 16 + v3 \div 4>>
                  ELSE <<v1 * 4 + v2 \div 16, (v2 % 16) * 16 + v3 \div 4,
                         (v3 % 4) * 64 + B64Value(encoded[4])>>
                       \o atob(SubSeq(encoded, 5, Len(encoded)))

\* Mutant of arrayBufferToBase64: the bytes are taken as 7-bit characters.
arrayBufferToBase64_SevenBit(buffer) ==
    btoa([i \in 1..Len(buffer) |-> buffer[i] % 128])

\* arrayBufferToBase64: each byte becomes the code unit String.fromCharCode
\* gives it, and the binary string is encoded with btoa.
arrayBufferToBase64(buffer) ==
    btoa([i \in 1..Len(buffer) |-> buffer[i]])

\* new Uint8Array(atob(bytes).split('').map((c) => c.charCodeAt(0))): the
\* code units of the decoded binary string, each stored in one byte.
DecodeStoredBytes(encoded) ==
    LET binary == atob(encoded) IN [i \in 1..Len(binary) |-> binary[i] % 256]

\* ------------------------------------------------------------ constants
\* 'Please summarize the content of this PDF.'
DefaultPromptText ==
    <<"P","l","e","a","s","e"," ","s","u","m","m","a","r","i","z","e"," ","t","h","e"," ","c","o","n","t","e","n","t"," ","o","f"," ","t","h","i","s"," ","P","D","F",".">>
\* 'ERROR: Failed to process PDF file.'
FileErrorText ==
    <<"E","R","R","O","R",":"," ","F","a","i","l","e","d"," ","t","o"," ","p","r","o","c","e","s","s"," ","P","D","F"," ","f","i","l","e",".">>
\* 'ERROR: '
ErrorPrefix == <<"E","R","R","O","R",":"," ">>
\* 'Failed to get stream data.'
StreamFallbackText ==
    <<"F","a","i","l","e","d"," ","t","o"," ","g","e","t"," ","s","t","r","e","a","m"," ","d","a","t","a",".">>
\* '.pdf', appended to the sanitized name for display.
PdfSuffix == <<".","p","d","f">>

PdfType == "application/pdf"
MaxFileSize == 4 * 1024 * 1024

\* --------------------------------------------------- inputs of the model
\* No file: the value of the file state before a selection and after a submit,
\* and e.target.files?.[0] when the picker holds no file.
NoFile == [type |-> "none"]

\* The files the picker can hand to handleFileChange.  size is File.size as
\* the browser reports it; bytes stands for what File.arrayBuffer() resolves
\* to (a short content, so that the encoding is computed in full).
SelectableFiles ==
    { [name |-> <<"m","y"," ","f","!",".","P","D","F">>, type |-> PdfType,
       size |-> MaxFileSize, bytes |-> <<37, 80>>],
      [name |-> <<"b","i","g",".","p","d","f">>, type |-> PdfType,
       size |-> MaxFileSize + 1, bytes |-> <<1, 2, 3>>],
      [name |-> <<"p",".","p","n","g">>, type |-> "image/png",
       size |-> 2, bytes |-> <<137, 80>>] }

\* The texts the user can leave in the input box.
Inputs == { <<>>, <<" ","\f">>, <<"U+3000","h","i"," ">> }

\* The text deltas a stream can carry.
Deltas == { <<"a">>, <<"b","c">> }
\* What one chunk of the stream carries in contentBlockDelta.delta.text: a
\* text delta, or nothing usable (the field is absent or the empty string).
Chunks == Deltas \cup { <<>> }

\* What client.send or the stream iteration can throw: an Error with its
\* message, or a value that is not an Error.
Failures ==
    { [isError |-> TRUE, message |-> <<"x">>],
      [isError |-> FALSE, message |-> <<>>] }

\* The ids of generateId: as many as Turns can exist, three for an
\* invocation (its user Turn, its assistant Turn, its error Turn).
Ids == 1..(3 * MaxSubs)

\* ----------------------------------------------------------------- state
VARIABLES
    messages,   \* useState<CustomMessage[]>: the Conversation
    input,      \* useState(''): the text of the input box
    file,       \* useState<File | null>: the pending attachment
    isLoading,  \* useState(false)
    subs,       \* the handleSubmit invocations that got past the empty check,
                \* in the order of their submit events, each with its closure,
                \* its locals and its position in the handler
    lastEvent,  \* history: "rejected" after a submit event on a disabled form,
                \* "noop" after a handleSubmit that returned with no content,
                \* "alert" after a file selection that raised an alert,
                \* "other" after any other event
    call        \* the evaluation of a pure function of the module on one
                \* argument (see the specifications of the pure functions);
                \* the component does not read it

vars == <<messages, input, file, isLoading, subs, lastEvent, call>>

\* No pure function is under evaluation.
NoCall == [fn |-> "none", stage |-> 0, arg |-> <<>>, once |-> <<>>, twice |-> <<>>]

\* The history of an event of the component.
Event(kind) ==
    /\ lastEvent' = kind
    /\ UNCHANGED call

\* -------------------------------------------------------- message shapes
\* CustomMessage.content is a string, {text, document} or {document}.
StringContent(text) == [kind |-> "string", text |-> text]
TextDocContent(text, document) ==
    [kind |-> "textdoc", text |-> text, document |-> document]
DocContent(document) == [kind |-> "doc", document |-> document]

Turn(role, content, id) == [role |-> role, content |-> content, id |-> id]

\* ContentBlock: {text} or {document: {name, format, source: {bytes}}}.
TextBlock(text) == [kind |-> "text", text |-> text]
DocumentBlock(name, format, bytes) ==
    [kind |-> "document", name |-> name, format |-> format, bytes |-> bytes]

\* Mutant of FormDisabled: the form is never disabled.
FormDisabled_Never == FALSE

\* The form's controls carry disabled={isLoading}: a disabled form submits
\* nothing and its inputs take no change.
FormDisabled == isLoading

\* Mutant of defaultPrompt: no default instruction is substituted.
defaultPrompt_NoSubstitute(f, text) == Trim(text)

\* const defaultPrompt = file && !input.trim() ? '...' : input.trim()
defaultPrompt(f, text) ==
    IF f # NoFile /\ Trim(text) = <<>> THEN DefaultPromptText ELSE Trim(text)

\* content after "if (defaultPrompt) content.push({ text: defaultPrompt })".
InitialContent(prompt) ==
    IF prompt # <<>> THEN <<TextBlock(prompt)>> ELSE <<>>

\* The document stored in the user Turn for the file f whose bytes were read.
StoredDocument(f) ==
    [name |-> sanitizeFileName(f.name), format |-> <<"p","d","f">>,
     bytes |-> arrayBufferToBase64(f.bytes),
     displayName |-> sanitizeFileName(f.name) \o PdfSuffix]

\* content.push({ document: { name: sanitizedFileName, format: 'pdf',
\* source: { bytes } } }) after the file was read.
ContentWithDocument(content, f) ==
    Append(content,
           DocumentBlock(sanitizeFileName(f.name), <<"p","d","f">>, f.bytes))

\* const userMessage: CustomMessage = {...}
userMessage(sub, id) ==
    Turn("user",
         IF sub.file = NoFile THEN StringContent(sub.defaultPrompt)
         ELSE IF Trim(sub.input) # <<>>
              THEN TextDocContent(sub.defaultPrompt, StoredDocument(sub.file))
              ELSE DocContent(StoredDocument(sub.file)),
         id)

\* The callback of messages.map(...): one Turn in the Converse API's format.
ConverseMessage(msg) ==
    IF msg.content.kind = "string"
    THEN [role |-> msg.role, content |-> <<TextBlock(msg.content.text)>>]
    ELSE IF msg.content.kind = "textdoc"
    THEN [role |-> msg.role,
          content |-> <<TextBlock(msg.content.text),
                        DocumentBlock(sanitizeFileName(msg.content.document.name),
                                      msg.content.document.format,
                                      DecodeStoredBytes(msg.content.document.bytes))>>]
    ELSE [role |-> msg.role,
          content |-> <<TextBlock(DefaultPromptText),
                        DocumentBlock(sanitizeFileName(msg.content.document.name),
                                      msg.content.document.format,
                                      DecodeStoredBytes(msg.content.document.bytes))>>]

\* converseMessages: the history the closure sees, then the new user content.
converseMessages(history, content) ==
    Append([i \in 1..Len(history) |-> ConverseMessage(history[i])],
           [role |-> "user", content |-> content])

\* The assistant Turn an error handler appends.
ErrorTurn(text, id) == Turn("assistant", StringContent(text), id)

\* `ERROR: ${error instanceof Error ? error.message : 'Failed to get stream data.'}`
StreamErrorText(error) ==
    ErrorPrefix \o (IF error.isError THEN error.message ELSE StreamFallbackText)

\* prev.map((msg) => msg.id === aiMessageId ? { ...msg, content: streamedText } : msg)
ApplyDelta(prev, aiMessageId, streamedText) ==
    [i \in 1..Len(prev) |->
        IF prev[i].id = aiMessageId
        THEN [prev[i] EXCEPT !.content = StringContent(streamedText)]
        ELSE prev[i]]

\* generateId draws from Math.random: nothing excludes an id drawn before.
\* The ids not yet in the Conversation are interchangeable, so a draw is the
\* least id not in use or, while the behaviour has had fewer than MaxClashes
\* repeats, an id in use.
UsedIds(turns) == { turns[k].id : k \in 1..Len(turns) }

Clashes(turns) == Len(turns) - Cardinality(UsedIds(turns))

MaxUsedId(turns) ==
    IF turns = <<>> THEN 0
    ELSE CHOOSE m \in Ids :
            /\ \E k \in 1..Len(turns) : turns[k].id = m
            /\ \A k \in 1..Len(turns) : turns[k].id <= m

generateId(turns) ==
    { MaxUsedId(turns) + 1 }
        \cup (IF Clashes(turns) < MaxClashes THEN UsedIds(turns) ELSE {})

\* A finished invocation: its frame is gone; its outcome and the number of
\* its calls of the collaborator are kept as history.
Finished(sub, outcome) ==
    [pc |-> "done",
     messages |-> <<>>, input |-> <<>>, file |-> NoFile,
     defaultPrompt |-> <<>>, content |-> <<>>,
     aiMessageId |-> 0, streamedText |-> <<>>, chunks |-> 0,
     calls |-> sub.calls, sent |-> <<>>,
     turnIndex |-> 0, deltas |-> <<>>, outcome |-> outcome]

\* -------------------------------------------------------------- handlers
Init ==
    /\ messages = <<>>
    /\ input = <<>>
    /\ file = NoFile
    /\ isLoading = FALSE
    /\ subs = <<>>
    /\ lastEvent = "other"
    /\ call = NoCall

\* onChange of the text input: setInput(e.target.value).
SetInput(value) ==
    /\ ~FormDisabled
    /\ input' = value
    /\ Event("other")
    /\ UNCHANGED <<messages, file, isLoading, subs>>

\* Mutant of handleFileChange: a file of exactly 4 MiB is refused.
handleFileChange_RefusesLimit(selectedFile) ==
    /\ ~FormDisabled
    /\ IF selectedFile # NoFile /\ selectedFile.type = PdfType
       THEN IF selectedFile.size >= MaxFileSize
            THEN UNCHANGED file /\ Event("alert")
            ELSE file' = selectedFile /\ Event("other")
       ELSE UNCHANGED file /\ Event("alert")
    /\ UNCHANGED <<messages, input, isLoading, subs>>

\* handleFileChange: a PDF of at most 4 MiB becomes the pending attachment;
\* anything else raises an alert and sets nothing.
handleFileChange(selectedFile) ==
    /\ ~FormDisabled
    /\ IF selectedFile # NoFile /\ selectedFile.type = PdfType
       THEN IF selectedFile.size > MaxFileSize
            THEN UNCHANGED file /\ Event("alert")
            ELSE file' = selectedFile /\ Event("other")
       ELSE UNCHANGED file /\ Event("alert")
    /\ UNCHANGED <<messages, input, isLoading, subs>>

\* The invocation of handleSubmit that the current render's closure starts:
\* it captures messages, input and file as rendered.
NewSubmission ==
    [pc |-> "start",
     messages |-> messages, input |-> input, file |-> file,
     defaultPrompt |-> defaultPrompt(file, input),
     content |-> InitialContent(defaultPrompt(file, input)),
     aiMessageId |-> 0, streamedText |-> <<>>, chunks |-> 0,
     calls |-> 0, sent |-> <<>>,
     \* history: where the assistant Turn was appended, the deltas received
     turnIndex |-> 0, deltas |-> <<>>, outcome |-> "none"]

\* Lines 132-200 of handleSubmit, from the user Turn to the await of
\* client.send: the new record of the invocation.  The closure's values are
\* not read after this point and are dropped.
Dispatched(sub, content, aiMessageId) ==
    [sub EXCEPT !.pc = "sending",
                !.messages = <<>>, !.input = <<>>, !.file = NoFile,
                !.defaultPrompt = <<>>,
                !.content = content,
                !.aiMessageId = aiMessageId,
                !.calls = @ + 1,
                !.sent = converseMessages(sub.messages, content),
                !.turnIndex = Len(messages) + 2]

\* Mutant of DispatchUpdates: setInput('') is left out.
DispatchUpdates_KeepsInput(sub, userId, aiMessageId) ==
    /\ messages' = messages \o
           << userMessage(sub, userId),
              Turn("assistant", StringContent(<<>>), aiMessageId) >>
    /\ file' = NoFile
    /\ isLoading' = TRUE
    /\ UNCHANGED input

\* Lines 132-149: the state updates of an invocation that goes on to send.
DispatchUpdates(sub, userId, aiMessageId) ==
    /\ messages' = messages \o
           << userMessage(sub, userId),
              Turn("assistant", StringContent(<<>>), aiMessageId) >>
    /\ input' = <<>>
    /\ file' = NoFile
    /\ isLoading' = TRUE

\* A submit event on the form.  A disabled form does not call handleSubmit.
\* Otherwise handleSubmit runs to its first await: with a file that is the
\* read of the file; without one it returns when there is no content, and
\* else runs on to the await of client.send.
SubmitEvent ==
    IF FormDisabled
    THEN /\ Event("rejected")
         /\ UNCHANGED <<messages, input, file, isLoading, subs>>
    ELSE IF file # NoFile
    THEN /\ Len(subs) < MaxSubs
         /\ subs' = Append(subs, [NewSubmission EXCEPT !.pc = "reading"])
         /\ Event("other")
         /\ UNCHANGED <<messages, input, file, isLoading>>
    ELSE IF Len(NewSubmission.content) = 0
    THEN /\ Event("noop")
         /\ UNCHANGED <<messages, input, file, isLoading, subs>>
    ELSE /\ Len(subs) < MaxSubs
         /\ \E userId \in generateId(messages) :
            \E aiMessageId \in generateId(Append(messages, Turn("user", <<>>, userId))) :
              /\ DispatchUpdates(NewSubmission, userId, aiMessageId)
              /\ subs' = Append(subs, Dispatched(NewSubmission,
                                                 NewSubmission.content,
                                                 aiMessageId))
         /\ Event("other")

\* file.arrayBuffer() resolves: the document is encoded and named, and the
\* handler runs on to the await of client.send.
FileReadOk(i) ==
    /\ i \in DOMAIN subs
    /\ subs[i].pc = "reading"
    /\ \E userId \in generateId(messages) :
       \E aiMessageId \in generateId(Append(messages, Turn("user", <<>>, userId))) :
         /\ DispatchUpdates(subs[i], userId, aiMessageId)
         /\ subs' = [subs EXCEPT ![i] =
                Dispatched(subs[i],
                           ContentWithDocument(subs[i].content, subs[i].file),
                           aiMessageId)]
    /\ Event("other")

\* Mutant of FileReadFail: setFile(null) is left out.
FileReadFail_KeepsFile(i) ==
    /\ i \in DOMAIN subs
    /\ subs[i].pc = "reading"
    /\ \E id \in generateId(messages) :
         messages' = Append(messages, ErrorTurn(FileErrorText, id))
    /\ isLoading' = FALSE
    /\ subs' = [subs EXCEPT ![i] = Finished(subs[i], "read_failed")]
    /\ Event("other")
    /\ UNCHANGED <<input, file>>

\* The catch of the file processing: an error Turn, no file, not loading.
FileReadFail(i) ==
    /\ i \in DOMAIN subs
    /\ subs[i].pc = "reading"
    /\ \E id \in generateId(messages) :
         messages' = Append(messages, ErrorTurn(FileErrorText, id))
    /\ file' = NoFile
    /\ isLoading' = FALSE
    /\ subs' = [subs EXCEPT ![i] = Finished(subs[i], "read_failed")]
    /\ Event("other")
    /\ UNCHANGED input

\* The catch and finally of the stream: an error Turn, then not loading.
CatchAndFinally(i, error) ==
    /\ \E id \in generateId(messages) :
         messages' = Append(messages, ErrorTurn(StreamErrorText(error), id))
    /\ isLoading' = FALSE
    /\ subs' = [subs EXCEPT ![i] = Finished(subs[i], "failed")]
    /\ UNCHANGED <<input, file>>

\* finally alone, after the stream loop ended normally.
Finally(i) ==
    /\ isLoading' = FALSE
    /\ subs' = [subs EXCEPT ![i] = Finished(subs[i], "completed")]
    /\ UNCHANGED <<messages, input, file>>

\* client.send resolves.  With a stream the loop awaits its first chunk;
\* without one (response.stream undefined) the handler is finished.
SendOk(i, hasStream) ==
    /\ i \in DOMAIN subs
    /\ subs[i].pc = "sending"
    /\ IF hasStream
       THEN /\ subs' = [subs EXCEPT ![i].pc = "streaming"]
            /\ UNCHANGED <<messages, input, file, isLoading>>
       ELSE Finally(i)
    /\ Event("other")

\* client.send rejects.
SendFail(i, error) ==
    /\ i \in DOMAIN subs
    /\ subs[i].pc = "sending"
    /\ CatchAndFinally(i, error)
    /\ Event("other")

\* The stream yields a chunk: a text delta is added to streamedText and
\* written to every Turn whose id is aiMessageId; another chunk is skipped.
StreamChunk(i, chunk) ==
    /\ i \in DOMAIN subs
    /\ subs[i].pc = "streaming"
    /\ subs[i].chunks < MaxChunks
    /\ IF chunk # <<>>
       THEN /\ messages' = ApplyDelta(messages, subs[i].aiMessageId,
                                      subs[i].streamedText \o chunk)
            /\ subs' = [subs EXCEPT ![i].streamedText = @ \o chunk,
                                    ![i].chunks = @ + 1,
                                    ![i].deltas = Append(@, chunk)]
            /\ Event("other")
       ELSE /\ subs' = [subs EXCEPT ![i].chunks = @ + 1]
            /\ Event("other")
            /\ UNCHANGED messages
    /\ UNCHANGED <<input, file, isLoading>>

\* The stream ends normally.
StreamEnd(i) ==
    /\ i \in DOMAIN subs
    /\ subs[i].pc = "streaming"
    /\ Finally(i)
    /\ Event("other")

\* The stream iteration throws.
StreamFail(i, error) ==
    /\ i \in DOMAIN subs
    /\ subs[i].pc = "streaming"
    /\ CatchAndFinally(i, error)
    /\ Event("other")

Next ==
    \/ \E value \in Inputs : SetInput(value)
    \/ \E selectedFile \in SelectableFiles \cup {NoFile} :
          handleFileChange(selectedFile)
    \/ SubmitEvent
    \/ \E i \in 1..MaxSubs : FileReadOk(i)
    \/ \E i \in 1..MaxSubs : FileReadFail(i)
    \/ \E i \in 1..MaxSubs, hasStream \in BOOLEAN : SendOk(i, hasStream)
    \/ \E i \in 1..MaxSubs, error \in Failures : SendFail(i, error)
    \/ \E i \in 1..MaxSubs, chunk \in Chunks : StreamChunk(i, chunk)
    \/ \E i \in 1..MaxSubs : StreamEnd(i)
    \/ \E i \in 1..MaxSubs, error \in Failures : StreamFail(i, error)

Spec == Init /\ [][Next]_vars

\* ------------------------------------------ sanitizeFileName on its own
\* The pieces file names are built from: a kept character, a hyphen, white
\* space, a character the class replaces, a bracket, a dot, the extension.
NameTokens ==
    { <<"a">>, <<"-">>, <<" ">>, <<"\t">>, <<"\r">>, <<"U+3000">>, <<"!">>,
      <<"(">>, <<".">>, <<".","p","d","f">>, <<".","P","d","F">> }

TokenSeqs(n) == UNION { [1..k -> NameTokens] : k \in 0..n }

RECURSIVE Flatten(_)
Flatten(ts) == IF ts = <<>> THEN <<>> ELSE Head(ts) \o Flatten(Tail(ts))

Pad(n) == [i \in 1..n |-> "a"]

ReportName ==
    <<"R","e","p","o","r","t"," ","(","F","i","n","a","l",")","!",
      ".","p","d","f">>

\* The file names sanitizeFileName is applied to: short names of every
\* make-up, names around the length cap, and the name of the spec's example.
FileNames ==
    { Flatten(ts) : ts \in TokenSeqs(MaxTokens) }
    \cup { Flatten(ts) \o Pad(n) \o Flatten(us) :
             ts \in TokenSeqs(1), us \in TokenSeqs(2),
             n \in (MaxNameLength - 3)..(MaxNameLength + 1) }
    \cup { ReportName }

SanitizeInit ==
    /\ messages = <<>> /\ input = <<>> /\ file = NoFile
    /\ isLoading = FALSE /\ subs = <<>> /\ lastEvent = "other"
    /\ call \in { [fn |-> "sanitizeFileName", stage |-> 0, arg |-> fileName,
                   once |-> <<>>, twice |-> <<>>] : fileName \in FileNames }

\* sanitizeFileName(file.name), line 104: the name stored in the Turn.
SanitizeFileName ==
    /\ call.fn = "sanitizeFileName" /\ call.stage = 0
    /\ call' = [call EXCEPT !.stage = 1, !.once = sanitizeFileName(call.arg)]
    /\ UNCHANGED <<messages, input, file, isLoading, subs, lastEvent>>

\* sanitizeFileName(msg.content.document.name), lines 156 and 171: the stored
\* name is sanitized again when the Turn is sent as history.
SanitizeStoredName ==
    /\ call.fn = "sanitizeFileName" /\ call.stage = 1
    /\ call' = [call EXCEPT !.stage = 2, !.twice = sanitizeFileName(call.once)]
    /\ UNCHANGED <<messages, input, file, isLoading, subs, lastEvent>>

SanitizeNext == SanitizeFileName \/ SanitizeStoredName

SanitizeSpec == SanitizeInit /\ [][SanitizeNext]_vars

\* --------------------------------------- arrayBufferToBase64 on its own
\* The values a byte of a file takes here: the ends of the range, the ends
\* of the 7-bit range and of the 6-bit groups of the encoding.
ByteValues == {0, 1, 63, 64, 127, 128, 255}

\* What File.arrayBuffer() can resolve to.
FileContents == UNION { [1..n -> ByteValues] : n \in 0..MaxBytes }

Base64Init ==
    /\ messages = <<>> /\ input = <<>> /\ file = NoFile
    /\ isLoading = FALSE /\ subs = <<>> /\ lastEvent = "other"
    /\ call \in { [fn |-> "arrayBufferToBase64", stage |-> 0, arg |-> buffer,
                   once |-> <<>>, twice |-> <<>>] : buffer \in FileContents }

\* pdfBase64 = arrayBufferToBase64(arrayBuffer), line 103: the encoded form
\* stored in the Turn.
EncodeFile ==
    /\ call.fn = "arrayBufferToBase64" /\ call.stage = 0
    /\ call' = [call EXCEPT !.stage = 1, !.once = arrayBufferToBase64(call.arg)]
    /\ UNCHANGED <<messages, input, file, isLoading, subs, lastEvent>>

\* new Uint8Array(atob(msg.content.document.bytes)...), lines 165 and 180:
\* the stored form is decoded when the Turn is sent as history.
DecodeStored ==
    /\ call.fn = "arrayBufferToBase64" /\ call.stage = 1
    /\ call' = [call EXCEPT !.stage = 2, !.twice = DecodeStoredBytes(call.once)]
    /\ UNCHANGED <<messages, input, file, isLoading, subs, lastEvent>>

Base64Next == EncodeFile \/ DecodeStored

Base64Spec == Base64Init /\ [][Base64Next]_vars

\* ------------------------------------------------------- claim helpers
\* The invocations whose assistant Turn is open: dispatched, stream neither
\* completed nor failed.
Open(i) == i \in DOMAIN subs /\ subs[i].pc \in {"sending", "streaming"}

\* Invocation i goes on to send in this step (from the submit event itself
\* when there is no file, from the end of the file read otherwise).
DispatchedNow(i) ==
    /\ i \in DOMAIN subs'
    /\ subs'[i].pc = "sending"
    /\ (i \in DOMAIN subs => subs[i].pc = "reading")

RECURSIVE Concat(_)
Concat(seqs) == IF seqs = <<>> THEN <<>> ELSE Head(seqs) \o Concat(Tail(seqs))

IsBlank(text) == \A k \in 1..Len(text) : text[k] \in WhiteSpace

\* C1: at most one assistant Turn is open in every reachable state.
C1_AtMostOneOpen ==
    Cardinality({ i \in DOMAIN subs : Open(i) }) <= 1

\* C2: while isLoading is true no submit is accepted: no invocation of
\* handleSubmit begins, and the rejected submit leaves the Conversation, the
\* pending attachment, the input, isLoading and every invocation (its open
\* Turn, its calls of the collaborator) unchanged.
C2_SubmitRejectedWhileLoading ==
    [][isLoading =>
         /\ Len(subs') = Len(subs)
         /\ lastEvent' # "noop"
         /\ (lastEvent' = "rejected" =>
                UNCHANGED <<messages, input, file, isLoading, subs>>)]_vars

C2_Witness ==
    /\ isLoading
    /\ lastEvent = "rejected"
    /\ \E i \in DOMAIN subs : Open(i)

\* C3: in every reachable state in which some assistant Turn is open,
\* isLoading is true.
C3_LoadingWhileOpen ==
    \A i \in DOMAIN subs : Open(i) => isLoading

\* C4: a submission that goes on to send calls the collaborator once, with the
\* Conversation as it stood just before the submission's Turns were appended,
\* Turn by Turn, followed by the new user content; no other step changes the
\* number of calls.
C4_SendsConversationBeforeAppend ==
    [][\A i \in DOMAIN subs' :
         IF DispatchedNow(i)
         THEN /\ subs'[i].calls = 1
              /\ subs'[i].sent =
                   Append([k \in 1..Len(messages) |-> ConverseMessage(messages[k])],
                          [role |-> "user", content |-> subs'[i].content])
         ELSE subs'[i].calls = IF i \in DOMAIN subs THEN subs[i].calls ELSE 0]_vars

\* C5: when the collaborator fails (client.send rejects or the stream throws)
\* the assistant Turn opened by that submission keeps the concatenation of the
\* deltas received, one assistant Turn 'ERROR: ...' is appended at the end and
\* isLoading becomes false.
C5_FailureKeepsTurnAndAppendsError ==
    [][\A i \in DOMAIN subs :
         (Open(i) /\ subs'[i].outcome = "failed") =>
            /\ Len(messages') = Len(messages) + 1
            /\ messages'[subs[i].turnIndex].role = "assistant"
            /\ messages'[subs[i].turnIndex].content =
                   StringContent(Concat(subs[i].deltas))
            /\ messages'[Len(messages')].role = "assistant"
            /\ \E error \in Failures :
                 messages'[Len(messages')].content =
                    StringContent(ErrorPrefix \o
                        (IF error.isError THEN error.message
                                          ELSE StreamFallbackText))
            /\ ~isLoading']_vars

\* C6: when the read of the attached file fails, exactly one assistant Turn
\* 'ERROR: Failed to process PDF file.' is appended and nothing else is, the
\* collaborator is not called, the pending attachment is cleared and
\* isLoading is false.
C6_FileReadFailure ==
    [][\A i \in DOMAIN subs :
         (subs[i].pc = "reading" /\ subs'[i].outcome = "read_failed") =>
            /\ Len(messages') = Len(messages) + 1
            /\ SubSeq(messages', 1, Len(messages)) = messages
            /\ messages'[Len(messages')].role = "assistant"
            /\ messages'[Len(messages')].content = StringContent(FileErrorText)
            /\ subs'[i].calls = 0
            /\ \A j \in DOMAIN subs : j # i => subs'[j] = subs[j]
            /\ file' = NoFile
            /\ ~isLoading']_vars

C6_Witness ==
    /\ \E i \in DOMAIN subs : subs[i].outcome = "read_failed"
    /\ messages # <<>>
    /\ messages[Len(messages)].content = StringContent(FileErrorText)
    /\ file = NoFile
    /\ ~isLoading

\* C7 (its part a finite run decides): when a stream completes normally,
\* isLoading becomes false, no Turn is appended and the assistant Turn opened
\* by that submission holds the concatenation of all the deltas received.
C7_CompletionKeepsConcatenation ==
    [][\A i \in DOMAIN subs :
         (Open(i) /\ subs'[i].outcome = "completed") =>
            /\ ~isLoading'
            /\ messages' = messages
            /\ messages[subs[i].turnIndex].content =
                   StringContent(Concat(subs[i].deltas))]_vars

\* C8: while a submission's assistant Turn is open, its content is the
\* concatenation, in order, of the deltas that submission's stream has
\* yielded so far.
C8_OpenTurnIsConcatenation ==
    \A i \in DOMAIN subs :
        Open(i) =>
            messages[subs[i].turnIndex].content =
                StringContent(Concat(subs[i].deltas))

\* C9: with only white space (or nothing) in the input and no pending file, no
\* step begins a submission, and the handleSubmit that returns for want of
\* content changes nothing.
C9_EmptySubmitIsNoOp ==
    [][(file = NoFile /\ IsBlank(input)) =>
         /\ Len(subs') = Len(subs)
         /\ (lastEvent' = "noop" =>
                UNCHANGED <<messages, input, file, isLoading, subs>>)]_vars

C9_Witness ==
    /\ lastEvent = "noop"
    /\ input = <<" ","\f">>
    /\ file = NoFile
    /\ ~isLoading

\* The content of the user Turn for the text and the file of a submission.
DerivedContent(text, f) ==
    IF f = NoFile THEN StringContent(Trim(text))
    ELSE IF IsBlank(text) THEN DocContent(StoredDocument(f))
    ELSE TextDocContent(Trim(text), StoredDocument(f))

\* C10: a submission that goes on to send appends exactly two Turns at the end
\* of the Conversation, the user Turn with the derived content and right after
\* it an assistant Turn with empty content, and leaves no pending attachment
\* and an empty input.
C10_AcceptedSubmitAppendsTwoTurns ==
    [][\A i \in DOMAIN subs' :
         DispatchedNow(i) =>
            LET n == Len(messages)
                text == IF i \in DOMAIN subs THEN subs[i].input ELSE input
                f == IF i \in DOMAIN subs THEN subs[i].file ELSE file
            IN  /\ Len(messages') = n + 2
                /\ SubSeq(messages', 1, n) = messages
                /\ messages'[n + 1].role = "user"
                /\ messages'[n + 1].content = DerivedContent(text, f)
                /\ messages'[n + 2].role = "assistant"
                /\ messages'[n + 2].content = StringContent(<<>>)
                /\ messages'[n + 2].id = subs'[i].aiMessageId
                /\ file' = NoFile
                /\ input' = <<>>]_vars

\* A second submission of a race has just been dispatched: its two Turns
\* follow the Turns of the first, whose stream is still open.
C10_Witness ==
    /\ Len(subs) = 2
    /\ subs[1].pc = "streaming"
    /\ subs[2].pc = "sending"
    /\ Len(messages) = 4
    /\ messages[3].role = "user"
    /\ messages[3].content.kind = "textdoc"
    /\ messages[4] = Turn("assistant", StringContent(<<>>), subs[2].aiMessageId)
    /\ subs[2].turnIndex = 4
    /\ file = NoFile
    /\ input = <<>>

\* C11: a submit with a pending file and only white space (or nothing) in the
\* input is accepted, never a no-op, and the user content it sends to the
\* collaborator is the text block 'Please summarize the content of this PDF.'
\* followed by the document block of the file.
C11_DefaultInstructionSubstituted ==
    [][/\ (file # NoFile => lastEvent' # "noop")
       /\ \A i \in DOMAIN subs :
            (subs[i].pc = "reading" /\ IsBlank(subs[i].input) /\ DispatchedNow(i)) =>
               /\ subs'[i].calls = 1
               /\ subs'[i].content =
                    << TextBlock(DefaultPromptText),
                       DocumentBlock(sanitizeFileName(subs[i].file.name),
                                     <<"p","d","f">>, subs[i].file.bytes) >>
               /\ subs'[i].sent[Len(subs'[i].sent)] =
                    [role |-> "user", content |-> subs'[i].content]]_vars

C11_Witness ==
    \E i \in DOMAIN subs :
        /\ Open(i)
        /\ Len(subs[i].content) = 2
        /\ subs[i].content[1] = TextBlock(DefaultPromptText)
        /\ subs[i].content[2].kind = "document"
        /\ messages[subs[i].turnIndex - 1].content.kind = "doc"

\* A PDF within the size limit of the claim.
IsSmallPdf(f) == f # NoFile /\ f.type = "application/pdf" /\ f.size <= 4194304

\* C12: a selection in the file picker becomes the pending attachment if and
\* only if it is a PDF of at most 4194304 bytes; any other selection raises an
\* alert and changes nothing; so the pending attachment and the file of every
\* invocation of handleSubmit is a PDF of at most 4194304 bytes.
C12_OnlySmallPdfIsAttached ==
    [][/\ \A f \in SelectableFiles \cup {NoFile} :
            handleFileChange(f) =>
                /\ IF IsSmallPdf(f)
                   THEN file' = f /\ lastEvent' # "alert"
                   ELSE file' = file /\ lastEvent' = "alert"
                /\ UNCHANGED <<messages, input, isLoading, subs>>
       /\ (lastEvent' = "alert" =>
             UNCHANGED <<messages, input, file, isLoading, subs>>)
       /\ (file' # NoFile => IsSmallPdf(file'))
       /\ \A i \in DOMAIN subs' :
            subs'[i].file # NoFile => IsSmallPdf(subs'[i].file)]_vars

\* A PDF of exactly 4 MiB is pending and the selection after it was refused.
C12_Witness ==
    /\ lastEvent = "alert"
    /\ file # NoFile
    /\ file.size = 4194304

\* No step removes or reorders a Turn, or changes an id, a role or the
\* content of a user Turn.
TurnsAreStable ==
    /\ Len(messages') >= Len(messages)
    /\ \A k \in 1..Len(messages) :
         /\ messages'[k].id = messages[k].id
         /\ messages'[k].role = messages[k].role
         /\ (messages[k].role = "user" =>
                messages'[k].content = messages[k].content)

\* A delta changes the Turn of its own submission only.
DeltaChangesOwnTurnOnly ==
    \A i \in DOMAIN subs :
        (subs[i].pc = "streaming" /\ subs'[i].pc = "streaming"
            /\ subs'[i].streamedText # subs[i].streamedText) =>
           /\ Len(messages') = Len(messages)
           /\ \A k \in 1..Len(messages) :
                k # subs[i].turnIndex => messages'[k] = messages[k]

\* C13: a Turn of the Conversation is never removed or reordered, its id and
\* role never change, the content of a user Turn never changes, and a stream
\* delta changes only the content of the assistant Turn that its own
\* submission opened, leaving the length of the Conversation as it is.
C13_TurnsAreStable ==
    [][TurnsAreStable /\ DeltaChangesOwnTurnOnly]_vars

\* C14: in every reachable state the Turns of the Conversation have pairwise
\* distinct ids.
C14_TurnIdsAreDistinct ==
    \A k, l \in 1..Len(messages) :
        k # l => messages[k].id # messages[l].id

\* C15: sanitizing a sanitized file name gives the same name again.
C15_SanitizeIsIdempotent ==
    (call.fn = "sanitizeFileName" /\ call.stage = 2) => call.twice = call.once

\* A name longer than the cap, with an extension and characters to replace,
\* was cut to 256 characters and then sanitized again.
C15_Witness ==
    /\ call.fn = "sanitizeFileName" /\ call.stage = 2
    /\ Len(call.arg) > 256
    /\ Len(call.once) = 256
    /\ call.once # SubSeq(call.arg, 1, 256)

\* C16: the result of sanitizeFileName is never empty and never longer than
\* 256 characters.
C16_SanitizedLengthInRange ==
    (call.fn = "sanitizeFileName" /\ call.stage >= 1) =>
        (Len(call.once) >= 1 /\ Len(call.once) <= 256)

\* A name of more than 256 kept characters was cut to 256.
C16_Witness ==
    /\ call.fn = "sanitizeFileName" /\ call.stage = 1
    /\ Len(StripPdfExtension(call.arg)) > 256
    /\ Len(call.once) = 256

\* C17 as claimed: "Report (Final)!.pdf" is sanitized to "Report-(Final)".
C17_ReportHasNoTrailingHyphen ==
    (call.fn = "sanitizeFileName" /\ call.stage >= 1 /\ call.arg = ReportName) =>
        call.once = <<"R","e","p","o","r","t","-","(","F","i","n","a","l",")">>

\* C17 amended: "Report (Final)!.pdf" is sanitized to "Report-(Final)-"; the
\* hyphen that replaces "!" stays, since trim removes white space only.
C17_ReportKeepsTrailingHyphen ==
    (call.fn = "sanitizeFileName" /\ call.stage >= 1 /\ call.arg = ReportName) =>
        call.once = <<"R","e","p","o","r","t","-","(","F","i","n","a","l",")","-">>

C17_Witness ==
    call.fn = "sanitizeFileName" /\ call.stage = 1 /\ call.arg = ReportName

\* The characters a sanitized name is made of.
NameChars == UpperCase \cup LowerCase \cup Digit \cup {"-", "(", ")", "[", "]"}

\* C20: the result of sanitizeFileName has only letters, digits, hyphens,
\* parentheses and square brackets, and no two hyphens in a row.
C20_SanitizedCharsAndHyphens ==
    (call.fn = "sanitizeFileName" /\ call.stage >= 1) =>
        /\ \A k \in 1..Len(call.once) : call.once[k] \in NameChars
        /\ \A k \in 1..(Len(call.once) - 1) :
             ~(call.once[k] = "-" /\ call.once[k + 1] = "-")

\* A name with white space, a dot, a replaced character and hyphens in a row
\* was sanitized.
C20_Witness ==
    /\ call.fn = "sanitizeFileName" /\ call.stage = 1
    /\ \E k \in 1..(Len(call.arg) - 2) :
         /\ call.arg[k] = "-" /\ call.arg[k + 1] = "!"
         /\ call.arg[k + 2] \in WhiteSpace

\* C18: decoding the stored base64 form of a file's bytes gives the same
\* bytes, as many and in the same order.
C18_StoredBytesRoundTrip ==
    (call.fn = "arrayBufferToBase64" /\ call.stage = 2) =>
        /\ Len(call.twice) = Len(call.arg)
        /\ call.twice = call.arg

\* Bytes above 127 in a content that ends in a padded group were encoded and
\* decoded.
C18_Witness ==
    /\ call.fn = "arrayBufferToBase64" /\ call.stage = 2
    /\ Len(call.arg) = 4
    /\ call.arg[1] = 255 /\ call.arg[4] = 128
    /\ call.once[Len(call.once)] = "="

\* The user Turn appended in a step is re-serialized to the content sent in
\* that step.
SentAsReserialized ==
    \A j \in DOMAIN subs' :
        DispatchedNow(j) =>
            ConverseMessage(messages'[subs'[j].turnIndex - 1]) =
                [role |-> "user", content |-> subs'[j].content]

\* No step changes what a user Turn is re-serialized to.
ReserializationIsStable ==
    \A k \in 1..Len(messages) :
        messages[k].role = "user" =>
            /\ k <= Len(messages')
            /\ ConverseMessage(messages'[k]) = ConverseMessage(messages[k])

\* C19: what a user Turn is re-serialized to in the history of a later
\* request is what its submission sent as the new user content.  A request
\* re-serializes the Turn as the Conversation holds it when the request is
\* made; so the Turn as it is appended is re-serialized to the content sent
\* in that step, and no later step changes what it is re-serialized to.
C19_HistoryRepeatsWhatWasSent ==
    [][SentAsReserialized /\ ReserializationIsStable]_vars

====
